---- MODULE Spec2Model ----
(***************************************************************************)
(* The SPLICE drum-pattern decoder of src/drum/decoder.go (the final       *)
(* version of the file, lines 108-304), as a state machine.                *)
(*                                                                         *)
(* One behaviour is one file handed to DecodeFile: the bytes of the file,  *)
(* the read position of the open *os.File, the decoder's fields (lastErr,  *)
(* pattern), the locals of decode (length, maxOffset) and of readTrack     *)
(* (track, the name length), and the place the call has reached (pc).      *)
(* Every d.read call is one step.  After a call has returned, the file may *)
(* be decoded again: by DecodeFile (a fresh handle, position 0) or by      *)
(* decode on the handle the first call used (position left where it was).  *)
(*                                                                         *)
(* Numbers wider than 16 bits are kept as sequences of 16-bit limbs, most  *)
(* significant first, so that uint64 arithmetic keeps its width.           *)
(***************************************************************************)
EXTENDS Integers, Sequences, FiniteSets, TLC

VARIABLES
    file,       \* the bytes of the file being decoded (never written)
    pos,        \* read position of the open file (os.File offset)
    pc,         \* the statement of decode / readTrack to execute next
    lastErr,    \* decoder.lastErr
    pattern,    \* *decoder.pattern
    length,     \* decode's local `length` (uint64)
    maxOffset,  \* decode's local `maxOffset` (uint64)
    track,      \* readTrack's local `track`
    nameLen,    \* readTrack's local `length` (uint32)
    ret,        \* what the current call returned: [pattern, err], or NoRet
    calls,      \* history: the results of the calls already finished
    start,      \* history: the read position at which the current call began
    reads,      \* history: the d.read calls of the current call, in order
    src         \* history: the fields the file was assembled from

vars == <<file, pos, pc, lastErr, pattern, length, maxOffset, track, nameLen,
          ret, calls, start, reads, src>>

---------------------------------------------------------------------------
(* Sizes fixed by the source *)

headerLen == 6
uint64Size == 8
versionLen == 32
float32Size == 4
uint8Size == 1
uint32Size == 4
trackSteps == 16

(* Bounds of the model *)

MaxTracks == 2
MaxCalls == 2

---------------------------------------------------------------------------
(* Bytes and numbers *)

Limb == 256 * 256

Zeros(n) == [i \in 1..n |-> 0]

Reverse(s) == [i \in 1..Len(s) |-> s[Len(s) + 1 - i]]

SPLICE == <<83, 80, 76, 73, 67, 69>>

Nil == "nil"
EOF == "EOF"
ErrUnexpectedEOF == "unexpected EOF"
InvalidHeader == "Invalid header"

\* binary.ByteOrder.UintNN: the bytes of a value, most significant first.
MostSignificantFirst(order, bs) ==
    IF order = "BigEndian" THEN bs ELSE Reverse(bs)

\* The value binary.Read stores for Len(bs) bytes: 16-bit limbs, most
\* significant first (a float32 is kept as its IEEE-754 bit pattern).
Value(order, bs) ==
    LET w == MostSignificantFirst(order, bs)
    IN  [i \in 1..(Len(bs) \div 2) |-> w[2 * i - 1] * 256 + w[2 * i]]

\* uint64(offset) of an int64 file offset.
Uint64(n) == <<0, 0, n \div Limb, n % Limb>>

\* a + b on uint64: the carry out of the top limb is dropped.
Add64(a, b) ==
    LET s4 == a[4] + b[4]
        s3 == a[3] + b[3] + (s4 \div Limb)
        s2 == a[2] + b[2] + (s3 \div Limb)
        s1 == a[1] + b[1] + (s2 \div Limb)
    IN  <<s1 % Limb, s2 % Limb, s3 % Limb, s4 % Limb>>

\* a <= b on unsigned limbs (the loop test of the code is strict).
LessOrEqual(a, b) ==
    a = b \/ \E i \in 1..Len(a) : a[i] < b[i] /\ \A j \in 1..(i - 1) : a[j] = b[j]

\* a < b on unsigned limbs.
Less(a, b) ==
    \E i \in 1..Len(a) : a[i] < b[i] /\ \A j \in 1..(i - 1) : a[j] = b[j]

\* The int a uint32 converts to for make([]byte, length).  Counts of 65536
\* and more are all kept as 65536: every file here is shorter, so a read of
\* any of them fails in the same way.
IntOf(u) == IF u[1] = 0 THEN u[2] ELSE Limb

\* The places of the bytes of s that are not NUL.
NonNul(s) == {i \in 1..Len(s) : s[i] # 0}

First(S) == CHOOSE i \in S : \A j \in S : i <= j

Last(S) == CHOOSE i \in S : \A j \in S : j <= i

\* bytes.Trim(b, "\x00"): the NUL bytes are cut from both ends.
Trim(s) ==
    IF NonNul(s) = {} THEN <<>> ELSE SubSeq(s, First(NonNul(s)), Last(NonNul(s)))

---------------------------------------------------------------------------
(* Reading *)

\* io.ReadFull on the file, as binary.Read calls it for n bytes at position p.
\* No byte is asked for when n = 0.  A short file gives EOF when nothing was
\* left and ErrUnexpectedEOF otherwise, and what was left has been consumed.
ReadFullAdvancesByCount(f, p, n) ==
    LET avail == Len(f) - p
    IN  IF n = 0 THEN [data |-> <<>>, err |-> Nil, pos |-> p]
        ELSE IF avail >= n
             THEN [data |-> SubSeq(f, p + 1, p + n), err |-> Nil, pos |-> p + n]
        ELSE IF avail = 0
             THEN [data |-> <<>>, err |-> EOF, pos |-> p]
        ELSE [data |-> <<>>, err |-> ErrUnexpectedEOF, pos |-> p + n]

ReadFull(f, p, n) ==
    LET avail == Len(f) - p
    IN  IF n = 0 THEN [data |-> <<>>, err |-> Nil, pos |-> p]
        ELSE IF avail >= n
             THEN [data |-> SubSeq(f, p + 1, p + n), err |-> Nil, pos |-> p + n]
        ELSE IF avail = 0
             THEN [data |-> <<>>, err |-> EOF, pos |-> p]
        ELSE [data |-> <<>>, err |-> ErrUnexpectedEOF, pos |-> Len(f)]

\* decoder.read's type switch: floating-point destinations are little-endian.
ByteOrderAllBig(kind) == "BigEndian"

ByteOrder(kind) ==
    IF kind \in {"float32", "float64"} THEN "LittleEndian" ELSE "BigEndian"

\* decoder.read's error latch: the error of a failed read replaces lastErr.
Latch(e, err) == IF err # Nil THEN err ELSE e

\* decoder.read of n bytes: the bytes read, the new position and lastErr.
read(f, p, e, n) ==
    LET r == ReadFull(f, p, n)
    IN  [ok      |-> r.err = Nil,
         data    |-> r.data,
         pos     |-> r.pos,
         lastErr |-> Latch(e, r.err)]

\* What the destination of a read holds afterwards: binary.Read writes it
\* only when the read succeeded, else it keeps what it held (dest).
Stored(r, dest) == IF r.ok THEN r.data ELSE dest

\* The entry of the history `reads` for a read r of n bytes begun at p.
Logged(op, p, n, r) == [op |-> op, at |-> p, n |-> n, got |-> r.pos - p, ok |-> r.ok]

\* decoder.currentOffset: Seek(0, SEEK_CUR) on a regular file cannot fail.
currentOffset(p) == Uint64(p)

---------------------------------------------------------------------------
(* The files decoded: assembled from fields, then cut to `cut` bytes *)

Pad(s, n) == s \o Zeros(n - Len(s))

Enc64(n) == <<0, 0, 0, 0, 0, 0, n \div 256, n % 256>>

Enc32(n) == <<0, 0, n \div 256, n % 256>>

BadTag == <<83, 80, 76, 73, 67, 70>>

Tags == {SPLICE, BadTag}

VersionAlpha == Pad(<<48, 46, 56, 48, 56, 45, 97, 108, 112, 104, 97>>, versionLen)

Versions ==
    { VersionAlpha,
      [i \in 1..versionLen |-> 118],
      Pad(<<0, 0, 49, 0, 50>>, versionLen) }

Tempo120 == <<0, 0, 240, 66>>

Tempos == {Tempo120, <<66, 240, 0, 0>>, <<1, 2, 2, 1>>}

Kick == <<107, 105, 99, 107>>

\* Track records; `decl` is the nameLen field as written in the file, which in
\* the last two differs from the length of the name that follows.
Records ==
    { [id |-> 0, decl |-> Enc32(4), name |-> Kick,
       steps |-> [i \in 1..trackSteps |-> IF i % 4 = 1 THEN 1 ELSE 0]],
      [id |-> 255, decl |-> Enc32(4), name |-> <<104, 104, 0, 0>>,
       steps |-> [i \in 1..trackSteps |-> IF i % 2 = 0 THEN 255 ELSE 7]],
      [id |-> 1, decl |-> Enc32(4), name |-> <<0, 115, 0, 100>>,
       steps |-> Zeros(trackSteps)],
      [id |-> 2, decl |-> Enc32(0), name |-> <<>>,
       steps |-> [i \in 1..trackSteps |-> 1]],
      [id |-> 3, decl |-> Enc32(30), name |-> Kick,
       steps |-> [i \in 1..trackSteps |-> i]],
      [id |-> 4, decl |-> Enc32(300), name |-> Kick,
       steps |-> [i \in 1..trackSteps |-> 2]] }

RecordSeqs == UNION { [1..n -> Records] : n \in 0..MaxTracks }

Image(rec) == <<rec.id>> \o rec.decl \o rec.name \o rec.steps

RECURSIVE Images(_)
Images(recs) == IF recs = <<>> THEN <<>> ELSE Image(Head(recs)) \o Images(Tail(recs))

\* The bytes from the version field to the end of the last record.
Body(version, tempo, recs) == version \o tempo \o Images(recs)

BodyLen(recs) == versionLen + float32Size + Len(Images(recs))

AllOnes64 == [i \in 1..uint64Size |-> 255]

\* The length fields tried for a body of b bytes: exact, zero, shorter than
\* version and tempo, ending inside the last record, longer than the body,
\* and 2^64 - 1.
LengthFields(b) ==
    {Enc64(b), Enc64(0), Enc64(20), Enc64(b - 3), Enc64(b + 7), AllOnes64}

Trails == {<<>>, <<9, 9, 9>>, [i \in 1..50 |-> 200 + i]}

Whole(s) == s.tag \o s.len \o Body(s.version, s.tempo, s.recs) \o s.trail

CutPoints == {0, 3, 6, 10, 14, 30, 46, 48, 50, 51, 53, 57, 60, 75}

\* The combinations taken: version and tempo vary on whole files with their
\* exact length field; a cut file has no trail; a bad tag comes with the exact
\* length field.
Sampled(s) ==
    /\ (s.version # VersionAlpha \/ s.tempo # Tempo120)
          => /\ s.tag = SPLICE
             /\ s.len = Enc64(BodyLen(s.recs))
             /\ s.cut = Len(Whole(s))
    /\ s.cut # Len(Whole(s))
          => s.trail = <<>> /\ s.len \in {Enc64(BodyLen(s.recs)), Enc64(0)}
    /\ s.tag # SPLICE
          => s.trail = <<>> /\ s.len = Enc64(BodyLen(s.recs)) /\ Len(s.recs) <= 1

Sources ==
    { s \in
        UNION { [tag : Tags, len : LengthFields(BodyLen(recs)), version : Versions,
                 tempo : Tempos, recs : {recs}, trail : Trails,
                 cut : CutPoints \cup {Len(Images(recs)) + 100}]
                : recs \in RecordSeqs } :
        /\ s.cut <= Len(Whole(s))
        /\ (s.cut \notin CutPoints => s.cut = Len(Whole(s)))
        /\ Sampled(s) }

---------------------------------------------------------------------------
(* decode *)

\* &Pattern{}: the zero value.
EmptyPattern == [Version |-> <<>>, Tempo |-> <<0, 0>>, Tracks |-> <<>>]

\* &Track{}: the zero value.
EmptyTrack == [ID |-> 0, Name |-> <<>>, Steps |-> <<>>]

Zero64 == <<0, 0, 0, 0>>

Zero32 == <<0, 0>>

\* Placeholder for `ret` while a call is running.
NoRet == [pattern |-> <<>>, err |-> "running"]

\* A decoder that takes over the pattern of the call before (not what the
\* code does).
NewDecoderKeepsPattern(p) ==
    /\ pos' = p
    /\ start' = p
    /\ pc' = "checkHeader"
    /\ lastErr' = Nil
    /\ pattern' = pattern
    /\ length' = Zero64
    /\ maxOffset' = Zero64
    /\ track' = EmptyTrack
    /\ nameLen' = Zero32
    /\ ret' = NoRet
    /\ reads' = <<>>

\* decode's first statement: a decoder with no error and an empty pattern.
\* Only the file's read position p is carried in from outside.
NewDecoder(p) ==
    /\ pos' = p
    /\ start' = p
    /\ pc' = "checkHeader"
    /\ lastErr' = Nil
    /\ pattern' = EmptyPattern
    /\ length' = Zero64
    /\ maxOffset' = Zero64
    /\ track' = EmptyTrack
    /\ nameLen' = Zero32
    /\ ret' = NoRet
    /\ reads' = <<>>

\* DecodeFile(path) on a file that exists: os.Open gives position 0.
Init ==
    /\ src \in Sources
    /\ file = SubSeq(Whole(src), 1, src.cut)
    /\ pos = 0
    /\ start = 0
    /\ pc = "checkHeader"
    /\ lastErr = Nil
    /\ pattern = EmptyPattern
    /\ length = Zero64
    /\ maxOffset = Zero64
    /\ track = EmptyTrack
    /\ nameLen = Zero32
    /\ ret = NoRet
    /\ calls = <<>>
    /\ reads = <<>>

\* checkHeader's early return on a failed read of the tag (not what the code does).
HeaderErrReadFirst(header, e) ==
    IF e # Nil THEN e ELSE IF header # SPLICE THEN InvalidHeader ELSE e

\* checkHeader, lines 244-246: lastErr after the comparison of the 6 bytes,
\* e being lastErr as the read left it.
HeaderErr(header, e) == IF header # SPLICE THEN InvalidHeader ELSE e

checkHeader ==
    /\ pc = "checkHeader"
    /\ pc' = "readLength"
    /\ IF lastErr # Nil
       THEN UNCHANGED <<pos, lastErr, reads>>
       ELSE LET r == read(file, pos, lastErr, headerLen)
            IN  /\ pos' = r.pos
                /\ lastErr' = HeaderErr(Stored(r, Zeros(headerLen)), r.lastErr)
                /\ reads' = Append(reads, Logged("header", pos, headerLen, r))
    /\ UNCHANGED <<file, pattern, length, maxOffset, track, nameLen, ret, calls,
                   start, src>>

readLength ==
    /\ pc = "readLength"
    /\ pc' = "maxOffset"
    /\ IF lastErr # Nil
       THEN length' = Zero64 /\ UNCHANGED <<pos, lastErr, reads>>
       ELSE LET r == read(file, pos, lastErr, uint64Size)
            IN  /\ pos' = r.pos
                /\ lastErr' = r.lastErr
                /\ length' = Value(ByteOrder("uint64"), Stored(r, Zeros(uint64Size)))
                /\ reads' = Append(reads, Logged("length", pos, uint64Size, r))
    /\ UNCHANGED <<file, pattern, maxOffset, track, nameLen, ret, calls, start, src>>

\* maxOffset := d.currentOffset() + length
setMaxOffset ==
    /\ pc = "maxOffset"
    /\ pc' = "readVersion"
    /\ maxOffset' = Add64(currentOffset(pos), length)
    /\ UNCHANGED <<file, pos, lastErr, pattern, length, track, nameLen, ret, calls,
                   start, reads, src>>

readVersionThenLoop ==
    /\ pc = "readVersion"
    /\ pc' = "loop"
    /\ IF lastErr # Nil
       THEN UNCHANGED <<pos, lastErr, pattern, reads>>
       ELSE LET r == read(file, pos, lastErr, versionLen)
            IN  /\ pos' = r.pos
                /\ lastErr' = r.lastErr
                /\ pattern' = [pattern EXCEPT !.Version = Trim(Stored(r, Zeros(versionLen)))]
                /\ reads' = Append(reads, Logged("version", pos, versionLen, r))
    /\ UNCHANGED <<file, length, maxOffset, track, nameLen, ret, calls, start, src>>

readVersion ==
    /\ pc = "readVersion"
    /\ pc' = "readTempo"
    /\ IF lastErr # Nil
       THEN UNCHANGED <<pos, lastErr, pattern, reads>>
       ELSE LET r == read(file, pos, lastErr, versionLen)
            IN  /\ pos' = r.pos
                /\ lastErr' = r.lastErr
                /\ pattern' = [pattern EXCEPT !.Version = Trim(Stored(r, Zeros(versionLen)))]
                /\ reads' = Append(reads, Logged("version", pos, versionLen, r))
    /\ UNCHANGED <<file, length, maxOffset, track, nameLen, ret, calls, start, src>>

readTempo ==
    /\ pc = "readTempo"
    /\ pc' = "loop"
    /\ IF lastErr # Nil
       THEN UNCHANGED <<pos, lastErr, pattern, reads>>
       ELSE LET r == read(file, pos, lastErr, float32Size)
            IN  /\ pos' = r.pos
                /\ lastErr' = r.lastErr
                /\ pattern' = [pattern EXCEPT
                                 !.Tempo = IF r.ok
                                           THEN Value(ByteOrder("float32"), r.data)
                                           ELSE @]
                /\ reads' = Append(reads, Logged("tempo", pos, float32Size, r))
    /\ UNCHANGED <<file, length, maxOffset, track, nameLen, ret, calls, start, src>>

\* A loop that tests after its body: the first record is read untested (not
\* what the code does).
loopTestUntilEqual ==
    /\ pc = "loop"
    /\ pc' = IF currentOffset(pos) # maxOffset THEN "readTrack" ELSE "return"
    /\ UNCHANGED <<file, pos, lastErr, pattern, length, maxOffset, track, nameLen,
                   ret, calls, start, reads, src>>

loopTestAfterBody ==
    /\ pc = "loop"
    /\ pc' = IF \/ Less(currentOffset(pos), maxOffset)
                \/ (lastErr = Nil /\ pattern.Tracks = <<>>)
             THEN "readTrack" ELSE "return"
    /\ UNCHANGED <<file, pos, lastErr, pattern, length, maxOffset, track, nameLen,
                   ret, calls, start, reads, src>>

\* for d.currentOffset() < maxOffset
loopTest ==
    /\ pc = "loop"
    /\ pc' = IF Less(currentOffset(pos), maxOffset) THEN "readTrack" ELSE "return"
    /\ UNCHANGED <<file, pos, lastErr, pattern, length, maxOffset, track, nameLen,
                   ret, calls, start, reads, src>>

\* readTrack, lines 281-285: nothing is done once an error is latched.
readTrack ==
    /\ pc = "readTrack"
    /\ IF lastErr # Nil
       THEN pc' = "loop" /\ UNCHANGED track
       ELSE pc' = "trackID" /\ track' = EmptyTrack
    /\ UNCHANGED <<file, pos, lastErr, pattern, length, maxOffset, nameLen, ret,
                   calls, start, reads, src>>

\* d.read(&track.ID)
readTrackID ==
    /\ pc = "trackID"
    /\ pc' = "trackLength"
    /\ LET r == read(file, pos, lastErr, uint8Size)
       IN  /\ pos' = r.pos
           /\ lastErr' = r.lastErr
           /\ track' = [track EXCEPT !.ID = Stored(r, <<0>>)[1]]
           /\ reads' = Append(reads, Logged("id", pos, uint8Size, r))
    /\ UNCHANGED <<file, pattern, length, maxOffset, nameLen, ret, calls, start, src>>

\* var length uint32; d.read(&length)
readTrackLength ==
    /\ pc = "trackLength"
    /\ pc' = "trackName"
    /\ LET r == read(file, pos, lastErr, uint32Size)
       IN  /\ pos' = r.pos
           /\ lastErr' = r.lastErr
           /\ nameLen' = Value(ByteOrder("uint32"), Stored(r, Zeros(uint32Size)))
           /\ reads' = Append(reads, Logged("nameLen", pos, uint32Size, r))
    /\ UNCHANGED <<file, pattern, length, maxOffset, track, ret, calls, start, src>>

\* name = make([]byte, length); d.read(name); name = bytes.Trim(name, "\x00").
\* After a failed read name is still all NUL, which Trim cuts to nothing.
readTrackName ==
    /\ pc = "trackName"
    /\ pc' = "trackSteps"
    /\ LET r == read(file, pos, lastErr, IntOf(nameLen))
       IN  /\ pos' = r.pos
           /\ lastErr' = r.lastErr
           /\ track' = [track EXCEPT !.Name = IF r.ok THEN Trim(r.data) ELSE <<>>]
           /\ reads' = Append(reads, Logged("name", pos, IntOf(nameLen), r))
    /\ UNCHANGED <<file, pattern, length, maxOffset, nameLen, ret, calls, start, src>>

\* steps = make([]byte, trackSteps); d.read(steps); the track is appended.
readTrackSteps ==
    /\ pc = "trackSteps"
    /\ pc' = "loop"
    /\ LET r == read(file, pos, lastErr, trackSteps)
       IN  /\ pos' = r.pos
           /\ lastErr' = r.lastErr
           /\ track' = [track EXCEPT !.Steps = Stored(r, Zeros(trackSteps))]
           /\ pattern' = [pattern EXCEPT !.Tracks = Append(@, track')]
           /\ reads' = Append(reads, Logged("steps", pos, trackSteps, r))
    /\ UNCHANGED <<file, length, maxOffset, nameLen, ret, calls, start, src>>

\* A return of the pattern together with the error (not what the code does).
ResultKeepsPattern(e, p) == [pattern |-> <<p>>, err |-> e]

\* decode, lines 205-209: (nil, lastErr) or (pattern, nil).  The pointer is
\* a sequence: empty for nil, else the pattern it points to.
Result(e, p) ==
    IF e # Nil THEN [pattern |-> <<>>, err |-> e] ELSE [pattern |-> <<p>>, err |-> Nil]

decodeReturn ==
    /\ pc = "return"
    /\ pc' = "done"
    /\ ret' = Result(lastErr, pattern)
    /\ UNCHANGED <<file, pos, lastErr, pattern, length, maxOffset, track, nameLen,
                   calls, start, reads, src>>

Finished(how) == [ret |-> ret, start |-> start, next |-> how]

\* DecodeFile on the same path once more: a new handle, at position 0.
DecodeFile ==
    /\ pc = "done"
    /\ Len(calls) + 1 < MaxCalls
    /\ calls' = Append(calls, Finished("DecodeFile"))
    /\ NewDecoder(0)
    /\ UNCHANGED <<file, src>>

\* decode on the handle the finished call used: the position stays.
decode ==
    /\ pc = "done"
    /\ Len(calls) + 1 < MaxCalls
    /\ calls' = Append(calls, Finished("decode"))
    /\ NewDecoder(pos)
    /\ UNCHANGED <<file, src>>

Next ==
    \/ checkHeader
    \/ readLength
    \/ setMaxOffset
    \/ readVersion
    \/ readTempo
    \/ loopTest
    \/ readTrack
    \/ readTrackID
    \/ readTrackLength
    \/ readTrackName
    \/ readTrackSteps
    \/ decodeReturn
    \/ DecodeFile
    \/ decode

Spec == Init /\ [][Next]_vars

\* A call is sequential code: while it has not returned it takes its next
\* statement.  Whether the file is decoded again is left to the caller.
FairSpec ==
    /\ Spec
    /\ WF_vars(checkHeader) /\ WF_vars(readLength) /\ WF_vars(setMaxOffset)
    /\ WF_vars(readVersion) /\ WF_vars(readTempo) /\ WF_vars(loopTest)
    /\ WF_vars(readTrack) /\ WF_vars(readTrackID) /\ WF_vars(readTrackLength)
    /\ WF_vars(readTrackName) /\ WF_vars(readTrackSteps) /\ WF_vars(decodeReturn)

---------------------------------------------------------------------------
(* What the properties speak of *)

\* The bytes the current call was given: the file from where the call began.
Input == SubSeq(file, start + 1, Len(file))

HasTag(b) == Len(b) >= headerLen /\ SubSeq(b, 1, headerLen) = SPLICE

Returned == pc = "done"

TruncatedInput == {EOF, ErrUnexpectedEOF}

\* The fields of s are those of a well-formed file: the tag, a length field
\* equal to the length of the body, and name lengths as declared.
WellFormedFields(s) ==
    /\ s.tag = SPLICE
    /\ s.len = Enc64(BodyLen(s.recs))
    /\ \A i \in 1..Len(s.recs) : s.recs[i].decl = Enc32(Len(s.recs[i].name))

\* The current call decodes, from its first byte, a well-formed file that is
\* whole (bytes may follow the declared body).
WellFormed == start = 0 /\ WellFormedFields(src) /\ src.cut = Len(Whole(src))

\* The current call decodes a well-formed file cut short of its declared body.
Truncated ==
    /\ start = 0
    /\ WellFormedFields(src)
    /\ src.cut < headerLen + uint64Size + BodyLen(src.recs)

---------------------------------------------------------------------------
(* C1: a call whose input does not begin with the six bytes SPLICE (an     *)
(* input of fewer than six bytes included) returns no Pattern and the      *)
(* error "Invalid header", and never enters the track loop.                *)
C1_InvalidHeader ==
    ~HasTag(Input) =>
        /\ pc \notin {"readTrack", "trackID", "trackLength", "trackName", "trackSteps"}
        /\ Returned => ret = [pattern |-> <<>>, err |-> InvalidHeader]

\* A call on an input of one to five bytes has returned "Invalid header".
C1_Witness ==
    /\ Returned
    /\ Len(Input) \in 1..(headerLen - 1)
    /\ ret.err = InvalidHeader

(* C2: a well-formed file cut to fewer bytes than tag, length field and    *)
(* declared body makes decode return an end-of-input error and no Pattern. *)
(* Stated for cuts that keep the six bytes of the tag (C1 speaks of the    *)
(* shorter ones).                                                          *)
C2_TruncatedReturnsEOF ==
    [](Truncated /\ HasTag(Input) /\ pc = "checkHeader"
         => <>(Returned /\ ret.pattern = <<>> /\ ret.err \in TruncatedInput))

(* C3: the track loop always exits, because no iteration leaves the offset *)
(* unchanged while it is below maxOffset: a pass through readTrack that    *)
(* goes back to the loop test has moved the offset forward.                *)
C3_IterationAdvances ==
    [][(pc = "readTrack" /\ pc' = "loop") => pos' > pos]_vars

(* C4: decode is all-or-nothing.  A call that returns an error returns no  *)
(* Pattern; a call that returns a Pattern returns no error, and every read *)
(* of that call succeeded.                                                 *)
C4_AllOrNothing ==
    Returned =>
        /\ ret.err # Nil => ret.pattern = <<>>
        /\ ret.pattern # <<>> =>
              /\ ret.err = Nil
              /\ \A i \in 1..Len(reads) : reads[i].ok

\* A call has returned an error and nil while its decoder's pattern already
\* held a track.
C4_Witness ==
    /\ Returned
    /\ ret.err # Nil
    /\ ret.pattern = <<>>
    /\ pattern.Tracks # <<>>

\* s without its trailing run of NUL bytes.
StripTrailingNul(s) == IF NonNul(s) = {} THEN <<>> ELSE SubSeq(s, 1, Last(NonNul(s)))

\* The bytes a logged read asked for.
Raw(e) == SubSeq(file, e.at + 1, e.at + e.n)

ReadsOf(op) == SelectSeq(reads, LAMBDA e : e.op = op)

\* The tracks the records recs stand for: name with its trailing NULs cut.
TracksOf(recs) ==
    [i \in 1..Len(recs) |->
        [ID |-> recs[i].id, Name |-> StripTrailingNul(recs[i].name),
         Steps |-> recs[i].steps]]

(* C5: for a well-formed file whose body holds k track records, decode     *)
(* returns a Pattern whose tracks are the k records in file order, each    *)
(* with the record's id, its name (trailing NULs cut) and its 16 step      *)
(* bytes as they are in the file.                                          *)
C5_TracksInOrder ==
    (Returned /\ WellFormed) =>
        /\ ret.err = Nil
        /\ ret.pattern # <<>>
        /\ ret.pattern[1].Tracks = TracksOf(src.recs)

\* The eight bytes of the length field of the input are all zero.
LengthIsZero ==
    /\ Len(Input) >= headerLen + uint64Size
    /\ SubSeq(Input, headerLen + 1, headerLen + uint64Size) = Zeros(uint64Size)

\* Where version and tempo lie in the input.
VersionAt == headerLen + uint64Size

TempoAt == VersionAt + versionLen

TracksAt == TempoAt + float32Size

\* Four bytes read with the first byte least / most significant.
LittleEndian32(b) == <<b[4] * 256 + b[3], b[2] * 256 + b[1]>>

BigEndian32(b) == <<b[1] * 256 + b[2], b[3] * 256 + b[4]>>

BigEndian64(b) ==
    <<b[1] * 256 + b[2], b[3] * 256 + b[4], b[5] * 256 + b[6], b[7] * 256 + b[8]>>

(* C6 as stated: every input with the tag and a length field of 0 decodes  *)
(* without error to a Pattern with no tracks.                              *)
C6_ZeroLengthDecodes ==
    (Returned /\ HasTag(Input) /\ LengthIsZero) =>
        /\ ret.err = Nil
        /\ ret.pattern # <<>>
        /\ ret.pattern[1].Tracks = <<>>

(* C6 amended: an input with the tag and a length field of 0 that holds    *)
(* the 36 bytes of version and tempo after the length field decodes        *)
(* without error to a Pattern with no tracks; the call made exactly four   *)
(* reads, the version from offset 14 and the tempo from offset 46, and the *)
(* Pattern holds what they read.                                           *)
C6_ZeroLengthWithVersionAndTempo ==
    (Returned /\ HasTag(Input) /\ LengthIsZero /\ Len(Input) >= TracksAt) =>
        /\ ret.err = Nil
        /\ ret.pattern # <<>>
        /\ ret.pattern[1].Tracks = <<>>
        /\ [i \in 1..Len(reads) |-> <<reads[i].op, reads[i].at - start, reads[i].got>>]
             = << <<"header", 0, headerLen>>,
                  <<"length", headerLen, uint64Size>>,
                  <<"version", VersionAt, versionLen>>,
                  <<"tempo", TempoAt, float32Size>> >>
        /\ ret.pattern[1].Version = Trim(SubSeq(Input, VersionAt + 1, TempoAt))
        /\ ret.pattern[1].Tempo = LittleEndian32(SubSeq(Input, TempoAt + 1, TracksAt))

\* A call on such an input, with bytes after the tempo, has returned a Pattern.
C6_Witness ==
    /\ Returned
    /\ HasTag(Input)
    /\ LengthIsZero
    /\ Len(Input) > TracksAt
    /\ ret.err = Nil
    /\ ret.pattern # <<>>

\* The call has read its length field.
LengthRead == Len(reads) >= 2 /\ reads[2].op = "length" /\ reads[2].ok

\* The length read is below 2^16, so that offset + L is a number of the model.
LengthSmall == length[1] = 0 /\ length[2] = 0 /\ length[3] = 0

\* bodyEnd: the offset after the length field plus L.
BodyEnd == start + headerLen + uint64Size + length[4]

\* The i-th read of the call took a byte at or beyond bodyEnd.
Beyond(i) == LengthRead /\ LengthSmall /\ reads[i].at + reads[i].got > BodyEnd

(* C7 as stated: no read of a call takes a byte at or beyond bodyEnd.      *)
C7_NothingReadBeyondBodyEnd == \A i \in 1..Len(reads) : ~Beyond(i)

\* The Pattern the fields of s decode to, its trail left aside.
PatternOf(s) ==
    [Version |-> Trim(s.version),
     Tempo   |-> LittleEndian32(s.tempo),
     Tracks  |-> [i \in 1..Len(s.recs) |->
                    [ID |-> s.recs[i].id, Name |-> Trim(s.recs[i].name),
                     Steps |-> s.recs[i].steps]]]

(* C7 amended: no track record is begun at or beyond bodyEnd, and only the *)
(* reads of version and tempo and the reads of a record after its id take  *)
(* bytes beyond it.  For a well-formed file no byte at or beyond bodyEnd   *)
(* is read, and the Pattern returned is that of the fields before it.      *)
C7_BodyEndBoundsRecordStarts ==
    /\ \A i \in 1..Len(reads) :
          /\ (reads[i].op = "id" /\ LengthRead /\ LengthSmall) => reads[i].at < BodyEnd
          /\ Beyond(i) => reads[i].op \in {"version", "tempo", "nameLen", "name", "steps"}
    /\ WellFormed =>
          /\ \A i \in 1..Len(reads) : ~Beyond(i)
          /\ Returned => ret = [pattern |-> <<PatternOf(src)>>, err |-> Nil]

\* A well-formed file with tracks and with bytes after its body has been
\* decoded.
C7_Witness ==
    /\ Returned
    /\ WellFormed
    /\ src.trail # <<>>
    /\ src.recs # <<>>
    /\ ret.err = Nil

(* C8: in a Pattern returned, the version is the 32 raw bytes and each     *)
(* track name the nameLen raw bytes with the trailing NUL bytes removed    *)
(* (so a name without NUL bytes is returned unchanged).                    *)
C8_TrailingNulStripped ==
    (Returned /\ ret.pattern # <<>>) =>
        /\ ret.pattern[1].Version = StripTrailingNul(Raw(ReadsOf("version")[1]))
        /\ \A k \in 1..Len(ret.pattern[1].Tracks) :
              ret.pattern[1].Tracks[k].Name = StripTrailingNul(Raw(ReadsOf("name")[k]))

(* C9: the 4 tempo bytes are taken little-endian, the 8 bytes of the       *)
(* length field and the 4 bytes of a name length big-endian; where the two *)
(* orders differ on the tempo bytes the tempo is the little-endian value.  *)
C9_ByteOrders ==
    /\ \A i \in 1..Len(reads) :
          /\ (reads[i].op = "length" /\ reads[i].ok)
                => length = BigEndian64(Raw(reads[i]))
          /\ (reads[i].op = "tempo" /\ reads[i].ok)
                => /\ pattern.Tempo = LittleEndian32(Raw(reads[i]))
                   /\ LittleEndian32(Raw(reads[i])) # BigEndian32(Raw(reads[i]))
                         => pattern.Tempo # BigEndian32(Raw(reads[i]))
    /\ (pc = "trackName" /\ reads[Len(reads)].ok)
          => nameLen = BigEndian32(Raw(reads[Len(reads)]))
    /\ (Returned /\ ret.pattern # <<>>)
          => ret.pattern[1].Tempo = LittleEndian32(Raw(ReadsOf("tempo")[1]))

\* A Pattern with a track has been returned for tempo bytes on which the
\* two byte orders differ.
C9_Witness ==
    /\ Returned
    /\ ret.pattern # <<>>
    /\ ret.pattern[1].Tracks # <<>>
    /\ LittleEndian32(Raw(ReadsOf("tempo")[1])) # BigEndian32(Raw(ReadsOf("tempo")[1]))

(* C10 as stated: a second call, made on the same input object after the   *)
(* first has finished, returns what the first returned.                    *)
C10_SecondCallSameResult ==
    (Returned /\ calls # <<>>) => ret = calls[Len(calls)].ret

(* C10 amended: decoding does not change the bytes of its input, and a     *)
(* call returns what every earlier call on the same bytes returned that    *)
(* began at the same read position (as two calls of DecodeFile do).  A     *)
(* call on the handle of a finished call goes on from where that one       *)
(* stopped reading.                                                        *)
C10_SameStartSameResult ==
    /\ file = SubSeq(Whole(src), 1, src.cut)
    /\ Returned =>
          \A k \in 1..Len(calls) : calls[k].start = start => calls[k].ret = ret

\* The file has been decoded a second time through DecodeFile, to a Pattern
\* with tracks.
C10_Witness ==
    /\ Returned
    /\ calls # <<>>
    /\ calls[Len(calls)].next = "DecodeFile"
    /\ ret.pattern # <<>>
    /\ ret.pattern[1].Tracks # <<>>

\* The reads of the call that failed, by their place in `reads`.
FailedReads == {i \in 1..Len(reads) : ~reads[i].ok}

(* C11: once a read of a call has failed, that call attempts no further    *)
(* read: no entry of the history of reads follows a failed one.            *)
C11_NoReadAfterFailure ==
    \A i \in FailedReads : i = Len(reads)

\* The error a failed read gave: EOF when nothing was left, else
\* ErrUnexpectedEOF.
ErrorOf(e) == IF e.got = 0 THEN EOF ELSE ErrUnexpectedEOF

\* The first failure of the call: that of its first failed read, or, when
\* every read succeeded, the mismatch of the tag.
FirstFailure ==
    IF FailedReads # {} THEN ErrorOf(reads[First(FailedReads)]) ELSE InvalidHeader

(* C12: a call that fails returns the error of the first failure of that   *)
(* call; no later error replaces it.                                       *)
C12_FirstErrorReturned ==
    (Returned /\ ret.err # Nil) => ret.err = FirstFailure

MalformedField == "MalformedField"

\* The length read makes (offset after the length field) + L reach 2^64:
\* the sum on uint64 comes out below the offset.
LengthOverflows ==
    /\ LengthRead
    /\ Less(Add64(Uint64(start + headerLen + uint64Size), length),
            Uint64(start + headerLen + uint64Size))

(* C13: a length field L for which (offset after the length field) + L     *)
(* does not fit in 64 bits makes decode fail with MalformedField; no       *)
(* Pattern is returned for it.                                             *)
C13_OverflowIsMalformedField ==
    (Returned /\ LengthOverflows) =>
        ret = [pattern |-> <<>>, err |-> MalformedField]

\* The last four reads of the call are the id, name length, name and steps
\* of one record, all successful, and they left the offset beyond bodyEnd.
Overshot ==
    /\ LengthRead /\ LengthSmall
    /\ Len(reads) >= 4
    /\ LET m == Len(reads)
       IN  /\ reads[m - 3].op = "id" /\ reads[m].op = "steps"
           /\ \A i \in (m - 3)..m : reads[i].ok
    /\ pos > BodyEnd

\* The record the last four reads took from the file.
LastRecord ==
    LET m == Len(reads)
    IN  [ID |-> Raw(reads[m - 3])[1], Name |-> Trim(Raw(reads[m - 1])),
         Steps |-> Raw(reads[m])]

(* C14: when the four reads of a record succeed and leave the offset       *)
(* strictly beyond bodyEnd, no further record is started, the record is    *)
(* the last entry of the tracks, no error is latched and decode returns    *)
(* the Pattern with a nil error.                                           *)
C14_OvershootSucceeds ==
    Overshot =>
        /\ pc \in {"loop", "return", "done"}
        /\ lastErr = Nil
        /\ Len(pattern.Tracks) = Len(ReadsOf("id"))
        /\ pattern.Tracks[Len(pattern.Tracks)] = LastRecord
        /\ Returned => ret = [pattern |-> <<pattern>>, err |-> Nil]

\* A record whose declared name reaches beyond bodyEnd was read from a file
\* with bytes left after it, and decode returned.
C14_Witness ==
    /\ Overshot /\ Returned
    /\ reads[Len(reads)].at < BodyEnd
    /\ Len(file) > pos
    /\ ret.err = Nil

\* The text t keeps every byte of raw up to its last non-NUL byte: only the
\* trailing run of NUL bytes is gone.
KeepsAllButTrailingNul(t, raw) ==
    /\ Len(t) = (IF NonNul(raw) = {} THEN 0 ELSE Last(NonNul(raw)))
    /\ \A i \in 1..Len(t) : t[i] = raw[i]

(* C15: trimming removes only the trailing run of NUL bytes: once the      *)
(* version has been read, and for every track appended, the decoded text   *)
(* keeps the leading NUL bytes and the NUL bytes before the last non-NUL   *)
(* byte of the raw bytes read.                                             *)
C15_OnlyTrailingNulRemoved ==
    /\ (ReadsOf("version") # <<>> /\ ReadsOf("version")[1].ok) =>
           KeepsAllButTrailingNul(pattern.Version, Raw(ReadsOf("version")[1]))
    /\ \A k \in 1..Len(pattern.Tracks) :
           ReadsOf("name")[k].ok =>
               KeepsAllButTrailingNul(pattern.Tracks[k].Name, Raw(ReadsOf("name")[k]))

\* A step of a call that has not returned yet.
StepOfCall == pc # "done"

\* The step made a read that succeeded.
ReadSucceeded ==
    /\ Len(reads') = Len(reads) + 1
    /\ reads'[Len(reads')].ok

(* C16: the offset never exceeds the length of the input; in every step    *)
(* of a call the offset is at least what it was before the step, and a     *)
(* step whose read of n bytes succeeds increases it by exactly n.          *)
C16_OffsetMonotoneAndBounded ==
    /\ [](pos <= Len(file))
    /\ [][StepOfCall =>
             /\ pos' >= pos
             /\ pos' <= Len(file')
             /\ ReadSucceeded => pos' = pos + reads'[Len(reads')].n]_vars

\* A name of several bytes has just been read in full from the middle of
\* the file, after five successful reads.
C16_Witness ==
    /\ pc = "trackSteps"
    /\ Len(reads) >= 7
    /\ \A i \in 1..Len(reads) : reads[i].ok
    /\ reads[Len(reads)].n > 1
    /\ pos = reads[Len(reads)].at + reads[Len(reads)].n
    /\ pos < Len(file)

\* The i-th read of the call is the successful read `op` of n bytes at the
\* offset `at` from where the call started.
ReadIs(i, op, at, n) ==
    /\ Len(reads) >= i
    /\ reads[i] = [op |-> op, at |-> start + at, n |-> n, got |-> n, ok |-> TRUE]

TrackReads == {"id", "nameLen", "name", "steps"}

(* C17: a decode that returns a Pattern has read the tag (6 bytes at 0),   *)
(* the length (8 bytes at 6), the version (32 bytes at 14) and the tempo   *)
(* (4 bytes at 46) in this order, each once and none skipped; every later  *)
(* read belongs to a track record, and the first record starts at 50.      *)
C17_StepsInOrder ==
    (Returned /\ ret.pattern # <<>>) =>
        /\ ReadIs(1, "header", 0, headerLen)
        /\ ReadIs(2, "length", headerLen, uint64Size)
        /\ ReadIs(3, "version", VersionAt, versionLen)
        /\ ReadIs(4, "tempo", TempoAt, float32Size)
        /\ \A i \in 5..Len(reads) : reads[i].op \in TrackReads
        /\ Len(reads) >= 5 => ReadIs(5, "id", TracksAt, uint8Size)
        /\ TracksAt = 50

\* A Pattern with two tracks has been returned.
C17_Witness ==
    /\ Returned
    /\ ret.pattern # <<>>
    /\ Len(ret.pattern[1].Tracks) = 2
    /\ Len(reads) = 12

====
